---- MODULE Spec2Model ----
(***************************************************************************)
(* Order trigger state machine (pytech/order.py) and the fill processing   *)
(* of BasicPortfolio (pytech/fin/portfolio/portfolio.py).                  *)
(*                                                                         *)
(* One order and one portfolio are modelled.  Every method of Order is a   *)
(* pure operator from an order record to an order record; every action     *)
(* applies one method (or one portfolio handler) to the live order.        *)
(* `op` remembers the last call (its name, inputs and result), so that a   *)
(* property of a single call is a property of one step.                    *)
(***************************************************************************)
EXTENDS Integers, Sequences, FiniteSets, TLC

\* Python's None in a numeric attribute (prices, days and times are >= 0)
None == 0 - 1
\* Python's None in a textual attribute
NoneStr == "None"

\* pytech.enums.TradeAction
BUY == "BUY"
SELL == "SELL"
TradeAction == {BUY, SELL}

\* pytech.enums.OrderType
MARKET == "MARKET"
LIMIT == "LIMIT"
STOP == "STOP"
STOP_LIMIT == "STOP_LIMIT"
OrderType == {MARKET, LIMIT, STOP, STOP_LIMIT}

\* pytech.enums.OrderSubType
DAY == "DAY"
GOOD_TIL_CANCELED == "GOOD_TIL_CANCELED"
OrderSubType == {DAY, GOOD_TIL_CANCELED}

\* pytech.enums.OrderStatus
OPEN == "OPEN"
HELD == "HELD"
FILLED == "FILLED"
CANCELLED == "CANCELLED"
REJECTED == "REJECTED"
OrderStatus == {OPEN, HELD, FILLED, CANCELLED, REJECTED}

\* pytech.utils.enums.EventType
EventType == {"MARKET_EVENT", "SIGNAL", "FILL"}

\* pytech.utils.enums.Position
LONG == "LONG"
SHORT == "SHORT"

----------------------------------------------------------------------------
Abs(n) == IF n < 0 THEN 0 - n ELSE n

\* Bounds of the model.

\* largest |qty| handed to the Order constructor
MaxQty == 1
\* prices quoted by the price oracle are 1..MaxPrice; stops and limits too
MaxPrice == 3

Prices == 1..MaxPrice
\* readings of datetime.now(), in days: the day the order is created and
\* the day after
ClockTicks == {0, 1}
\* available_volume carried by the Fill events
Volumes == {0 - 1, 1}
\* fills are fed until the order is overfilled by one share
FilledCap(o) == Abs(o.qty) + 1
\* the single instrument the order is for
Ticker == "AAA"
\* price carried by the Fill events of this specification
FillPrices == {1}
\* initial_capital handed to the portfolio constructor
InitialCapitals == {3}
\* commission handed to the Order constructor
Commissions == {0}
\* max_days_open handed to the Order constructor
MaxDaysOpenArgs == {None}
\* raise_on_warnings handed to the portfolio constructor
RaiseOnWarnings == {FALSE}

\* Bounds of the specification of the portfolio's handlers (SpecPortfolio).

\* Market events are fed until the snapshots hold this many records beyond
\* the one they start with
MaxBars == 2
\* stop and limit of the order the Order Book holds
BookPrices == {2}
\* qty handed to the constructor of that order
BookQtys == {1}
\* commission handed to the constructor of that order
BookCommissions == {0, 2}
\* initial_capital of the portfolio
BookCapitals == {2}
\* adjusted close of the latest bar
AdjCloses == {2}
\* the registered signal handlers
Handlers == <<"first", "second">>
\* signal_type carried by the Signal events
SignalTypes == {"LONG", "EXIT"}
\* the signals sent while bars and fills are handled too
BookSignals == {"LONG"}
\* price carried by the Fill events
BookFillPrices == {1}
\* available_volume carried by the Fill events
BookVolumes == {0 - 1, 0, 1}
\* the id under which the Order Book holds the order
OrderId == "order-1"

\* Bounds of the specification of the order alone (SpecOrder).

\* the last day the clock reaches; day 0 is the first day an order is created
MaxDay == 2
Days == 0..MaxDay
\* the day the order is created
CreatedArgs == {0, 1}
\* max_days_open handed to the Order constructor: the default, or one day
ExpiryArgs == {None, 1}

\* default max_days_open of an order that is not a DAY order
DefaultMaxDaysOpen == 90


----------------------------------------------------------------------------
VARIABLES
    order,              \* the Order object (its columns and attributes)
    args,               \* the arguments its constructor was called with
    cash,               \* Portfolio.cash
    total_commission,   \* Portfolio.total_commission
    owned_assets,       \* Portfolio.owned_assets: ticker -> owned asset
    raise_on_warnings,  \* Portfolio.raise_on_warnings
    signal_handlers,    \* Portfolio.signal_handlers: the iterable registered
    all_holdings_mv,    \* Portfolio.all_holdings_mv: the holdings snapshots
    positions_df,       \* Portfolio.positions_df: the rows of the snapshots
    blotter_dt,         \* Blotter.current_dt
    op                  \* the last call: name, price seen, order changed or not

vars == <<order, args, cash, total_commission, owned_assets,
          raise_on_warnings, signal_handlers, all_holdings_mv, positions_df,
          blotter_dt, op>>

----------------------------------------------------------------------------
\* Order

\* InitQty without the negation of a positive SELL quantity
InitQty_kept(action, qty) == qty

\* Order.__init__: the stored quantity of a SELL order is never positive.
InitQty(action, qty) ==
    IF action = SELL
    THEN IF qty > 0 THEN qty * (0 - 1) ELSE qty
    ELSE qty

\* a constructor that stores HELD
Order__init__held(action, order_type, stop, limit, qty, filled, commission, created, order_subtype, max_days_open) ==
    [ action         |-> action,
      order_type     |-> order_type,
      order_subtype  |-> order_subtype,
      max_days_open  |-> IF order_subtype # DAY /\ max_days_open = None
                         THEN DefaultMaxDaysOpen
                         ELSE max_days_open,
      qty            |-> InitQty(action, qty),
      commission     |-> commission,
      stop           |-> stop,
      limit          |-> limit,
      stop_reached   |-> FALSE,
      limit_reached  |-> FALSE,
      filled         |-> filled,
      _status        |-> HELD,
      reason         |-> NoneStr,
      created        |-> created,
      last_updated   |-> created,
      close_date     |-> None ]

Order__init__(action, order_type, stop, limit, qty, filled, commission, created, order_subtype, max_days_open) ==
    [ action         |-> action,
      order_type     |-> order_type,
      order_subtype  |-> order_subtype,
      max_days_open  |-> IF order_subtype # DAY /\ max_days_open = None
                         THEN DefaultMaxDaysOpen
                         ELSE max_days_open,
      qty            |-> InitQty(action, qty),
      commission     |-> commission,
      stop           |-> stop,
      limit          |-> limit,
      stop_reached   |-> FALSE,
      limit_reached  |-> FALSE,
      filled         |-> filled,
      _status        |-> OPEN,
      reason         |-> NoneStr,
      created        |-> created,
      last_updated   |-> created,
      close_date     |-> None ]

\* Order.open_amount
open_amount(o) == o.qty - o.filled

\* a status getter that answers the stored column
status_stored(o) == o._status

\* Order.status (getter)
status(o) ==
    IF open_amount(o) = 0 THEN FILLED
    ELSE IF o._status = HELD /\ o.filled # 0 THEN OPEN
    ELSE o._status

\* Order.status (setter)
set_status(o, s) == [o EXCEPT !._status = s]

\* triggered looking at the stop alone
triggered_stop_only(o) ==
    IF o.stop # None /\ ~o.stop_reached THEN FALSE ELSE TRUE

\* Order.triggered
triggered(o) ==
    IF o.stop # None /\ ~o.stop_reached THEN FALSE
    ELSE IF o.limit # None /\ ~o.limit_reached THEN FALSE
    ELSE TRUE

\* Order.open
open(o) == status(o) \in {OPEN, HELD}

\* Order.cancel
cancel(o, reason) == [set_status(o, CANCELLED) EXCEPT !.reason = reason]

\* Order.reject
reject(o, reason) == [set_status(o, REJECTED) EXCEPT !.reason = reason]

\* Order.hold
hold(o, reason) == [set_status(o, HELD) EXCEPT !.reason = reason]

\* the STOP_LIMIT / BUY rule storing the outcome of each comparison in its
\* flag
stop_limit_buy_rule_assign(o, current_price, t) ==
    [o EXCEPT !.stop_reached = current_price >= o.stop,
              !.limit_reached = current_price >= o.limit,
              !.last_updated = t]

\* the STOP_LIMIT / BUY rule with the limit tested beside the stop, not
\* under it
stop_limit_buy_rule_flat(o, current_price, t) ==
    LET o1 == IF current_price >= o.stop
              THEN [o EXCEPT !.stop_reached = TRUE, !.last_updated = t]
              ELSE o
    IN  IF current_price >= o.limit
        THEN [o1 EXCEPT !.limit_reached = TRUE]
        ELSE o1

\* Order.check_order_triggers, the STOP_LIMIT / BUY rule; t is the reading
\* of datetime.now()
stop_limit_buy_rule(o, current_price, t) ==
    IF current_price >= o.stop
    THEN [o EXCEPT !.stop_reached = TRUE, !.last_updated = t,
                   !.limit_reached = IF current_price >= o.limit
                                     THEN TRUE ELSE @]
    ELSE o

\* the STOP_LIMIT / SELL rule with the limit test of the LIMIT / SELL rule
stop_limit_sell_rule_le(o, current_price, t) ==
    IF current_price <= o.stop
    THEN [o EXCEPT !.stop_reached = TRUE, !.last_updated = t,
                   !.limit_reached = IF current_price <= o.limit
                                     THEN TRUE ELSE @]
    ELSE o

\* Order.check_order_triggers, the STOP_LIMIT / SELL rule
stop_limit_sell_rule(o, current_price, t) ==
    IF current_price <= o.stop
    THEN [o EXCEPT !.stop_reached = TRUE, !.last_updated = t,
                   !.limit_reached = IF current_price >= o.limit
                                     THEN TRUE ELSE @]
    ELSE o

\* Order.check_order_triggers, the STOP / BUY rule
stop_buy_rule(o, current_price, t) ==
    IF current_price >= o.stop
    THEN [o EXCEPT !.stop_reached = TRUE, !.last_updated = t]
    ELSE o

\* the STOP / SELL rule with the comparison of the STOP / BUY rule
stop_sell_rule_ge(o, current_price, t) ==
    IF current_price >= o.stop
    THEN [o EXCEPT !.stop_reached = TRUE, !.last_updated = t]
    ELSE o

\* Order.check_order_triggers, the STOP / SELL rule
stop_sell_rule(o, current_price, t) ==
    IF current_price <= o.stop
    THEN [o EXCEPT !.stop_reached = TRUE, !.last_updated = t]
    ELSE o

\* Order.check_order_triggers, the LIMIT / BUY rule
limit_buy_rule(o, current_price, t) ==
    IF current_price >= o.limit
    THEN [o EXCEPT !.limit_reached = TRUE, !.last_updated = t]
    ELSE o

\* a LIMIT / SELL rule that is met at or above the limit
limit_sell_rule_ge(o, current_price, t) ==
    IF current_price >= o.limit
    THEN [o EXCEPT !.limit_reached = TRUE, !.last_updated = t]
    ELSE o

\* Order.check_order_triggers, the LIMIT / SELL rule
limit_sell_rule(o, current_price, t) ==
    IF current_price <= o.limit
    THEN [o EXCEPT !.limit_reached = TRUE, !.last_updated = t]
    ELSE o

\* Order.check_order_triggers, the rule chosen by (order type, action)
apply_trigger_rule(o, current_price, t) ==
    IF o.order_type = STOP_LIMIT /\ o.action = BUY
    THEN stop_limit_buy_rule(o, current_price, t)
    ELSE IF o.order_type = STOP_LIMIT /\ o.action = SELL
    THEN stop_limit_sell_rule(o, current_price, t)
    ELSE IF o.order_type = STOP /\ o.action = BUY
    THEN stop_buy_rule(o, current_price, t)
    ELSE IF o.order_type = STOP /\ o.action = SELL
    THEN stop_sell_rule(o, current_price, t)
    ELSE IF o.order_type = LIMIT /\ o.action = BUY
    THEN limit_buy_rule(o, current_price, t)
    ELSE IF o.order_type = LIMIT /\ o.action = SELL
    THEN limit_sell_rule(o, current_price, t)
    ELSE o

\* the conversion that changes the type and keeps the stop
convert_stop_limit_keep_stop(o) ==
    IF o.stop_reached /\ o.order_type = STOP_LIMIT
    THEN [o EXCEPT !.order_type = LIMIT]
    ELSE o

\* Order.check_order_triggers, the STOP_LIMIT -> LIMIT conversion
convert_stop_limit(o) ==
    IF o.stop_reached /\ o.order_type = STOP_LIMIT
    THEN [o EXCEPT !.stop = None, !.order_type = LIMIT]
    ELSE o

\* check_order_triggers refreshing last_updated on every call that evaluates
\* a rule
check_order_triggers_touch(o, current_price, t) ==
    IF o.order_type = MARKET THEN o
    ELSE IF triggered(o) THEN o
    ELSE [convert_stop_limit(apply_trigger_rule(o, current_price, t))
            EXCEPT !.last_updated = t]

\* check_order_triggers without the early return of a triggered order
check_order_triggers_unguarded(o, current_price, t) ==
    IF o.order_type = MARKET THEN o
    ELSE convert_stop_limit(apply_trigger_rule(o, current_price, t))

\* Order.check_order_triggers
check_order_triggers(o, current_price, t) ==
    IF o.order_type = MARKET THEN o
    ELSE IF triggered(o) THEN o
    ELSE convert_stop_limit(apply_trigger_rule(o, current_price, t))

\* datetime.today() == expr_date.date(): a datetime compared with a date.
\* Python's datetime.__eq__ answers False for every date that is not a
\* datetime, whatever the two values are.
datetime_eq_date(today, expr_date) == FALSE

\* check_order_expiration cancelling a DAY order only while it is open
check_order_expiration_open_only(o, market_open, t) ==
    IF o.order_subtype = DAY /\ ~market_open /\ open(o)
    THEN cancel(o, "Market closed without executing order.")
    ELSE o

\* check_order_expiration cancelling a GOOD_TIL_CANCELED order past its
\* expiry day whatever the calendar answers
check_order_expiration_past_expiry(o, market_open, t) ==
    IF o.order_subtype = DAY THEN
        IF ~market_open
        THEN cancel(o, "Market closed without executing order.")
        ELSE o
    ELSE IF t > o.created + o.max_days_open
    THEN cancel(o, "Max days had passed without the underlying order executing.")
    ELSE o

\* Order.check_order_expiration; market_open is the trading calendar's
\* open_at_time(schedule, now), t the reading of datetime.now()
check_order_expiration(o, market_open, t) ==
    IF o.order_subtype = DAY THEN
        IF ~market_open
        THEN cancel(o, "Market closed without executing order.")
        ELSE o
    ELSE IF o.order_subtype = GOOD_TIL_CANCELED THEN
        IF datetime_eq_date(t, o.created + o.max_days_open)
        THEN IF ~market_open
             THEN cancel(o, "Max days had passed without the underlying order executing.")
             ELSE o
        ELSE o
    ELSE o

----------------------------------------------------------------------------
\* Portfolio

\* Portfolio.start_date, the day the back test starts
StartDate == 0

\* Portfolio._construct_all_holdings: the record the snapshots start with
construct_all_holdings(initial_capital) ==
    << [k \in {Ticker, "datetime", "cash", "commission", "total"} |->
          IF k = "datetime" THEN StartDate
          ELSE IF k \in {"cash", "total"} THEN initial_capital
          ELSE 0] >>

\* a check_liquidity that lets a buy take the last of the cash
check_liquidity_to_zero(c, avg_price_per_share, qty) ==
    IF qty < 0 THEN TRUE
    ELSE c - avg_price_per_share * qty >= 0

\* Portfolio.check_liquidity
check_liquidity(c, avg_price_per_share, qty) ==
    IF qty < 0 THEN TRUE
    ELSE c - avg_price_per_share * qty > 0

\* Blotter.make_trade, its effect on the order: filled grows by the quantity
make_trade_order(o, qty) == [o EXCEPT !.filled = @ + qty]

\* Blotter.make_trade, the Trade it constructs
make_trade(o, price, qty) ==
    [ ticker              |-> Ticker,
      action              |-> o.action,
      qty                 |-> qty,
      avg_price_per_share |-> price,
      commission          |-> o.commission ]

\* Trade.trade_cost: the sign-adjusted net value less the commission
trade_cost(trade) ==
    (0 - (trade.avg_price_per_share * trade.qty)) - trade.commission

\* an _update_from_trade that takes the trade cost off the cash
update_from_trade_cash_minus(c, trade) == c - trade_cost(trade)

\* BasicPortfolio._update_from_trade, the cash
update_from_trade_cash(c, trade) == c + trade_cost(trade)

\* BasicPortfolio._update_from_trade, the running total of the commission
update_from_trade_commission(total, trade) == total + trade.commission

\* BasicPortfolio._create_new_owned_asset_from_trade; OwnedAsset.from_trade
\* marks the position at the price of the trade
create_new_owned_asset_from_trade(oa, trade) ==
    [t \in (DOMAIN oa) \cup {trade.ticker} |->
        IF t = trade.ticker
        THEN [ shares_owned |-> trade.qty,
               position     |-> IF trade.action = SELL THEN SHORT ELSE LONG,
               total_position_value |->
                   trade.qty * trade.avg_price_per_share ]
        ELSE oa[t]]

\* BasicPortfolio._update_existing_owned_asset_from_trade; OwnedAsset.make_trade
\* answers None when the trade leaves no share
update_existing_owned_asset_from_trade(oa, trade) ==
    LET shares == oa[trade.ticker].shares_owned + trade.qty
    IN  IF shares = 0
        THEN [t \in (DOMAIN oa) \ {trade.ticker} |-> oa[t]]
        ELSE [oa EXCEPT ![trade.ticker].shares_owned = shares,
                        ![trade.ticker].total_position_value =
                            shares * trade.avg_price_per_share]

\* BasicPortfolio._update_from_trade, the position map
update_from_trade_assets(oa, trade) ==
    IF trade.ticker \in DOMAIN oa
    THEN update_existing_owned_asset_from_trade(oa, trade)
    ELSE create_new_owned_asset_from_trade(oa, trade)

\* OwnedAsset.update_total_position_value: the position marked at the
\* latest adjusted close
update_total_position_value(oa, adj_close) ==
    [t \in DOMAIN oa |->
        [oa[t] EXCEPT !.total_position_value = oa[t].shares_owned * adj_close]]

\* a holdings record whose total is the cash alone
holdings_record_cash_total(oa, c, commission, adj_close) ==
    LET market_value ==
            IF Ticker \in DOMAIN oa THEN oa[Ticker].shares_owned * adj_close
            ELSE 0
    IN  [k \in {Ticker, "cash", "commission", "total"} |->
            IF k = Ticker THEN market_value
            ELSE IF k = "cash" THEN c
            ELSE IF k = "commission" THEN commission
            ELSE c]

\* Portfolio.update_timeindex, the holdings record dh of one bar
holdings_record(oa, c, commission, adj_close) ==
    LET market_value ==
            IF Ticker \in DOMAIN oa THEN oa[Ticker].shares_owned * adj_close
            ELSE 0
    IN  [k \in {Ticker, "cash", "commission", "total"} |->
            IF k = Ticker THEN market_value
            ELSE IF k = "cash" THEN c
            ELSE IF k = "commission" THEN commission
            ELSE c + market_value]

\* Portfolio.update_timeindex, the rows of one bar in positions_df: one per
\* ticker, indexed by (datetime, ticker)
positions_rows(dh, latest_dt) ==
    << [index |-> <<latest_dt, Ticker>>, row |-> dh] >>

\* an append that leaves every record of the sequence the same object as
\* the new one
append_holdings_aliased(holdings, dh) ==
    [i \in 1..Len(holdings) + 1 |-> dh]

\* Portfolio.update_timeindex, self.all_holdings_mv.append(dh)
append_holdings(holdings, dh) == Append(holdings, dh)

\* an update_timeindex that takes every event for a Market event
update_timeindex_raises_never(event_type) == FALSE

\* Portfolio.update_timeindex, the test of the event type
update_timeindex_raises(event_type) == event_type # "MARKET_EVENT"

\* BasicPortfolio.update_signal, the test of the event type
update_signal_raises(event_type) == event_type # "SIGNAL"

\* an update_fill that raises on every liquidity failure
liquidity_failure_raises_always(raise) == "InsufficientFundsError"

\* BasicPortfolio.update_fill, the liquidity failure: the error is raised
\* when the portfolio is configured with raise_on_warnings
liquidity_failure_raises(raise) ==
    IF raise THEN "InsufficientFundsError" ELSE NoneStr

\* BasicPortfolio.update_fill, the test of the event type
update_fill_accepts(event_type) == event_type = "FILL"

\* Blotter.check_order_triggers, its effect on the order: the triggers of a
\* still-open order are evaluated
blotter_check_order_triggers(o, current_price, t) ==
    IF open(o) THEN check_order_triggers(o, current_price, t) ELSE o

\* a list of triggered orders that holds every open order that is triggered
\* after the call
triggered_orders_steady(before, after) ==
    IF open(before) /\ triggered(after) THEN <<OrderId>> ELSE << >>

\* Blotter.check_order_triggers, the list it returns: the still-open orders
\* whose triggered became true during the call
triggered_orders(before, after) ==
    IF open(before) /\ ~triggered(before) /\ triggered(after)
    THEN <<OrderId>>
    ELSE << >>

\* An iterable handed to the signal_handlers setter: a list, which every
\* for loop walks from its start, or an iterator (a generator, a map
\* object), which yields each item once.
a_list(items) == [kind |-> "list", items |-> items]
an_iterator(items) == [kind |-> "iterator", items |-> items]

\* Portfolio.signal_handlers (setter) called with None, as __init__ does
no_signal_handlers == a_list(<< >>)

\* the items a for loop over the iterable visits
visited(iterable) == iterable.items

\* the iterable after a for loop ran over it
after_loop(iterable) ==
    IF iterable.kind = "iterator"
    THEN [iterable EXCEPT !.items = << >>]
    ELSE iterable

\* BasicPortfolio._process_signal: every handler the loop over
\* signal_handlers visits is handed the signal and the triggered orders
process_signal(handlers, signal, orders) ==
    [i \in 1..Len(handlers) |->
        [handler |-> handlers[i], signal |-> signal,
         triggered_orders |-> orders]]

----------------------------------------------------------------------------
\* The calls

\* the record of a call: its name, the price it saw, whether it changed the
\* order
Call(name, price, before, after) ==
    [name |-> name, price |-> price, changed |-> before # after]

\* datetime.now() does not run backwards: a reading is no earlier than the
\* last one the order stored
ClockReadings(o) == {t \in ClockTicks : t >= o.last_updated}

\* stop and limit as the docstring of Order.__init__ asks for them: a stop
\* only for a stop order, a limit only for a limit order
StopArgs(order_type) ==
    IF order_type \in {STOP, STOP_LIMIT} THEN Prices ELSE {None}

LimitArgs(order_type) ==
    IF order_type \in {LIMIT, STOP_LIMIT} THEN Prices ELSE {None}

\* qty as the docstring of Order.__init__ asks for it, positive for a buy
\* order; a sell order is given either sign, and 0 is the default
QtyArgs(action) ==
    IF action = BUY THEN 0..MaxQty ELSE (0 - MaxQty)..MaxQty

\* shares already filled when the order is constructed: none, or up to qty
FilledArgs(action, qty) ==
    LET q == InitQty(action, qty)
    IN  IF q < 0 THEN q..0 ELSE 0..q

Init ==
    /\ \E action \in TradeAction, order_type \in OrderType,
          order_subtype \in OrderSubType, max_days_open \in MaxDaysOpenArgs,
          commission \in Commissions :
         \E stop \in StopArgs(order_type), limit \in LimitArgs(order_type),
            qty \in QtyArgs(action) :
          \E filled \in FilledArgs(action, qty) :
           /\ order = Order__init__(action, order_type, stop, limit, qty,
                                    filled, commission, 0, order_subtype,
                                    max_days_open)
           /\ args = [order_type |-> order_type, stop |-> stop, qty |-> qty]
    /\ \E initial_capital \in InitialCapitals :
         /\ cash = initial_capital
         /\ all_holdings_mv = construct_all_holdings(initial_capital)
    /\ total_commission = 0
    /\ owned_assets = << >>
    /\ raise_on_warnings \in RaiseOnWarnings
    /\ signal_handlers = no_signal_handlers
    /\ positions_df = << >>
    /\ blotter_dt = StartDate
    /\ op = Call("__init__", None, order, order)

Portfolio_unchanged ==
    UNCHANGED <<cash, total_commission, owned_assets, raise_on_warnings,
                signal_handlers, all_holdings_mv, positions_df, blotter_dt>>

\* order.cancel()
Cancel ==
    /\ order' = cancel(order, "")
    /\ op' = Call("cancel", None, order, order')
    /\ UNCHANGED args
    /\ Portfolio_unchanged

\* order.reject()
Reject ==
    /\ order' = reject(order, "")
    /\ op' = Call("reject", None, order, order')
    /\ UNCHANGED args
    /\ Portfolio_unchanged

\* order.hold()
Hold ==
    /\ order' = hold(order, "")
    /\ op' = Call("hold", None, order, order')
    /\ UNCHANGED args
    /\ Portfolio_unchanged

\* order.check_order_triggers() with the oracle quoting current_price
CheckOrderTriggers ==
    \E current_price \in Prices, t \in ClockReadings(order) :
        /\ order' = check_order_triggers(order, current_price, t)
        /\ op' = Call("check_order_triggers", current_price, order, order')
        /\ UNCHANGED args
        /\ Portfolio_unchanged

\* order.check_order_expiration() with the calendar answering market_open
CheckOrderExpiration ==
    \E market_open \in BOOLEAN, t \in ClockReadings(order) :
        /\ order' = check_order_expiration(order, market_open, t)
        /\ op' = Call("check_order_expiration", None, order, order')
        /\ UNCHANGED args
        /\ Portfolio_unchanged

\* portfolio.update_fill(event)
UpdateFill ==
    \E event_type \in EventType, price \in FillPrices,
       available_volume \in Volumes :
        /\ Abs(order.filled + available_volume) <= FilledCap(order)
        /\ UNCHANGED <<args, raise_on_warnings, signal_handlers,
                       all_holdings_mv, positions_df, blotter_dt>>
        /\ IF event_type = "FILL" /\ check_liquidity(cash, price, available_volume)
           THEN LET trade == make_trade(order, price, available_volume)
                IN  /\ order' = make_trade_order(order, available_volume)
                    /\ cash' = update_from_trade_cash(cash, trade)
                    /\ total_commission' =
                         update_from_trade_commission(total_commission, trade)
                    /\ owned_assets' = update_from_trade_assets(owned_assets, trade)
           ELSE UNCHANGED <<order, cash, total_commission, owned_assets>>
        /\ op' = Call("update_fill", price, order, order')

Next ==
    \/ Cancel
    \/ Reject
    \/ Hold
    \/ CheckOrderTriggers
    \/ CheckOrderExpiration
    \/ UpdateFill

Spec == Init /\ [][Next]_vars

----------------------------------------------------------------------------
\* The order alone, created on any day and with any max_days_open, under
\* its own methods.  `op` remembers more of the last call here: the
\* calendar's answer and the clock's reading of an expiration check, and
\* whether a tick repeats, at the same price, a tick that changed nothing.

OrderCall(name, price, market_open, now, again, before, after) ==
    [ name        |-> name,
      price       |-> price,
      market_open |-> market_open,
      now         |-> now,
      again       |-> again,
      changed     |-> before # after ]

\* datetime.now() does not run backwards
DayReadings(o) == {t \in Days : t >= o.last_updated}

InitOrder ==
    /\ \E action \in TradeAction, order_type \in OrderType,
          order_subtype \in OrderSubType, max_days_open \in ExpiryArgs,
          commission \in Commissions, created \in CreatedArgs :
         \E stop \in StopArgs(order_type), limit \in LimitArgs(order_type),
            qty \in QtyArgs(action) :
          \E filled \in FilledArgs(action, qty) :
           /\ order = Order__init__(action, order_type, stop, limit, qty,
                                    filled, commission, created,
                                    order_subtype, max_days_open)
           /\ args = [order_type |-> order_type, stop |-> stop, qty |-> qty]
    /\ \E initial_capital \in InitialCapitals :
         /\ cash = initial_capital
         /\ all_holdings_mv = construct_all_holdings(initial_capital)
    /\ total_commission = 0
    /\ owned_assets = << >>
    /\ raise_on_warnings \in RaiseOnWarnings
    /\ signal_handlers = no_signal_handlers
    /\ positions_df = << >>
    /\ blotter_dt = StartDate
    /\ op = OrderCall("__init__", None, FALSE, None, FALSE, order, order)

\* order.cancel()
OrderCancel ==
    /\ order' = cancel(order, "")
    /\ op' = OrderCall("cancel", None, FALSE, None, FALSE, order, order')
    /\ UNCHANGED args
    /\ Portfolio_unchanged

\* order.hold()
OrderHold ==
    /\ order' = hold(order, "")
    /\ op' = OrderCall("hold", None, FALSE, None, FALSE, order, order')
    /\ UNCHANGED args
    /\ Portfolio_unchanged

\* order.check_order_triggers() with the oracle quoting current_price
OrderTick ==
    \E current_price \in Prices, t \in DayReadings(order) :
        /\ order' = check_order_triggers(order, current_price, t)
        /\ op' = OrderCall("check_order_triggers", current_price, FALSE, None,
                           /\ op.name = "check_order_triggers"
                           /\ op.price = current_price
                           /\ ~op.changed,
                           order, order')
        /\ UNCHANGED args
        /\ Portfolio_unchanged

\* order.check_order_expiration() on day t with the calendar answering
\* market_open
OrderExpire ==
    \E market_open \in BOOLEAN, t \in DayReadings(order) :
        /\ order' = check_order_expiration(order, market_open, t)
        /\ op' = OrderCall("check_order_expiration", None, market_open, t,
                           FALSE, order, order')
        /\ UNCHANGED args
        /\ Portfolio_unchanged

NextOrder ==
    \/ OrderCancel
    \/ OrderHold
    \/ OrderTick
    \/ OrderExpire

SpecOrder == InitOrder /\ [][NextOrder]_vars

----------------------------------------------------------------------------
\* The portfolio under the events of the queue, with the Order Book holding
\* one order.  `op` remembers of the last handler call the event type, the
\* price and quantity of a Fill event, what check_liquidity answered, the
\* error raised, whether the Order Book was asked to check the triggers and
\* the list it returned, the handler calls made, and how many times the
\* order has been in a returned list so far.

\* check_liquidity was not called
NotAsked == "not asked"

\* the fields of `op` that only update_fill fills in
FillCall(price, qty, liquid) == [price |-> price, qty |-> qty, liquid |-> liquid]

NoFill == FillCall(None, None, NotAsked)

PortfolioCall(name, event_type, fill, raised, checked, returned, handled, reports) ==
    [ name       |-> name,
      event_type |-> event_type,
      price      |-> fill.price,
      qty        |-> fill.qty,
      liquid     |-> fill.liquid,
      raised     |-> raised,
      checked    |-> checked,
      returned   |-> returned,
      handled    |-> handled,
      reports    |-> IF reports + Len(returned) > 2 THEN 2
                     ELSE reports + Len(returned) ]

\* stop and limit as the docstring of Order.__init__ asks for them
BookStopArgs(order_type) ==
    IF order_type \in {STOP, STOP_LIMIT} THEN BookPrices ELSE {None}

BookLimitArgs(order_type) ==
    IF order_type \in {LIMIT, STOP_LIMIT} THEN BookPrices ELSE {None}

InitBook(registrations) ==
    /\ \E action \in TradeAction, order_type \in OrderType,
          commission \in BookCommissions, qty \in BookQtys :
         \E stop \in BookStopArgs(order_type),
            limit \in BookLimitArgs(order_type) :
           /\ order = Order__init__(action, order_type, stop, limit, qty, 0,
                                    commission, StartDate, DAY, None)
           /\ args = [order_type |-> order_type, stop |-> stop, qty |-> qty]
    /\ \E initial_capital \in BookCapitals :
         /\ cash = initial_capital
         /\ all_holdings_mv = construct_all_holdings(initial_capital)
    /\ total_commission = 0
    /\ owned_assets = << >>
    /\ raise_on_warnings \in BOOLEAN
    /\ signal_handlers \in registrations
    /\ positions_df = << >>
    /\ blotter_dt = StartDate
    /\ op = PortfolioCall("__init__", NoneStr, NoFill, NoneStr, FALSE,
                          << >>, << >>, 0)

\* the handlers are registered as a list
InitPortfolio == InitBook({a_list(Handlers)})

\* Portfolio.update_timeindex, the statements of its body in an order that
\* evaluates the triggers after the record is appended
update_timeindex_statements_check_last ==
    << "blotter.current_dt", "dh", "lib.write_snapshot",
       "all_holdings_mv.append", "blotter.check_order_triggers" >>

\* Portfolio.update_timeindex, the statements of its body after the check of
\* the event type, in the order of the code: lines 271, 272, 277-312,
\* 320-323 and 324
update_timeindex_statements ==
    << "blotter.current_dt", "blotter.check_order_triggers", "dh",
       "lib.write_snapshot", "all_holdings_mv.append" >>

\* what one statement of update_timeindex does to what the later statements
\* can see: the time of the Order Book, the time at which the triggers
\* were evaluated, whether the record was built and whether after the
\* evaluation, the length of the holdings in memory when persistence was
\* notified and whether it was handed a record, the length of the holdings
execute(statement, local, latest_dt) ==
    CASE statement = "blotter.current_dt" ->
           [local EXCEPT !.current_dt = latest_dt]
      [] statement = "blotter.check_order_triggers" ->
           [local EXCEPT !.checked_at = local.current_dt]
      [] statement = "dh" ->
           [local EXCEPT !.built = TRUE,
                         !.built_after_check = local.checked_at # None]
      [] statement = "lib.write_snapshot" ->
           [local EXCEPT !.written = local.holdings,
                         !.written_built = local.built]
      [] statement = "all_holdings_mv.append" ->
           [local EXCEPT !.holdings = local.holdings + 1]

RECURSIVE run_statements(_, _, _)
run_statements(statements, local, latest_dt) ==
    IF statements = << >>
    THEN << >>
    ELSE LET after == execute(Head(statements), local, latest_dt)
         IN  << after >> \o run_statements(Tail(statements), after, latest_dt)

\* the steps of one update_timeindex call that did not raise
update_timeindex_steps(current_dt, holdings, latest_dt) ==
    run_statements(update_timeindex_statements,
                   [ current_dt |-> current_dt, checked_at |-> None,
                     built |-> FALSE, built_after_check |-> FALSE,
                     written |-> None, written_built |-> FALSE,
                     holdings |-> Len(holdings) ],
                   latest_dt)

\* the call with its steps
WithSteps(call, steps) == call @@ [steps |-> steps]

\* portfolio.update_timeindex(event): the bar after the last one is the
\* latest, the oracle quotes current_price
PortfolioMarket ==
    \E event_type \in EventType :
        /\ Len(all_holdings_mv) <= MaxBars
        /\ UNCHANGED <<args, cash, total_commission, raise_on_warnings,
                       signal_handlers>>
        /\ IF update_timeindex_raises(event_type)
           THEN /\ UNCHANGED <<order, owned_assets, all_holdings_mv,
                               positions_df, blotter_dt>>
                /\ op' = WithSteps(
                            PortfolioCall("update_timeindex", event_type,
                                          NoFill, "InvalidEventTypeError",
                                          FALSE, << >>, << >>, op.reports),
                            << >>)
           ELSE \E current_price \in Prices, t \in ClockReadings(order),
                   adj_close \in AdjCloses :
                LET latest_dt == blotter_dt + 1
                    after == blotter_check_order_triggers(order,
                                                          current_price, t)
                    dh == holdings_record(owned_assets, cash,
                                          total_commission, adj_close)
                IN  /\ blotter_dt' = latest_dt
                    /\ order' = after
                    /\ owned_assets' =
                         update_total_position_value(owned_assets, adj_close)
                    /\ positions_df' =
                         positions_df \o positions_rows(dh, latest_dt)
                    /\ all_holdings_mv' = append_holdings(all_holdings_mv, dh)
                    /\ op' = WithSteps(
                                PortfolioCall("update_timeindex", event_type,
                                              NoFill, NoneStr, TRUE,
                                              triggered_orders(order, after),
                                              << >>, op.reports),
                                update_timeindex_steps(blotter_dt,
                                                       all_holdings_mv,
                                                       latest_dt))

\* portfolio.update_signal(event) with the oracle quoting current_price and
\* the event carrying one of the signals
update_signal(signals) ==
    \E event_type \in EventType, signal \in signals :
        /\ UNCHANGED <<args, cash, total_commission, owned_assets,
                       raise_on_warnings, all_holdings_mv, positions_df,
                       blotter_dt>>
        /\ IF update_signal_raises(event_type)
           THEN /\ UNCHANGED <<order, signal_handlers>>
                /\ op' = PortfolioCall("update_signal", event_type, NoFill,
                                       "InvalidEventTypeError", FALSE, << >>,
                                       << >>, op.reports)
           ELSE \E current_price \in Prices, t \in ClockReadings(order) :
                LET after == blotter_check_order_triggers(order,
                                                          current_price, t)
                    returned == triggered_orders(order, after)
                IN  /\ order' = after
                    /\ signal_handlers' = after_loop(signal_handlers)
                    /\ op' = PortfolioCall("update_signal", event_type,
                                           NoFill, NoneStr, TRUE, returned,
                                           process_signal(
                                               visited(signal_handlers),
                                               signal, returned),
                                           op.reports)

\* update_signal among the other handlers: one kind of signal
PortfolioSignal == update_signal(BookSignals)

\* update_signal alone: every kind of signal
AnySignal == update_signal(SignalTypes)

\* portfolio.update_fill(event)
PortfolioFill ==
    \E event_type \in EventType, price \in BookFillPrices,
       available_volume \in BookVolumes :
        /\ Abs(order.filled + available_volume) <= FilledCap(order)
        /\ UNCHANGED <<args, raise_on_warnings, signal_handlers,
                       all_holdings_mv, positions_df, blotter_dt>>
        /\ IF ~update_fill_accepts(event_type)
           THEN /\ UNCHANGED <<order, cash, total_commission, owned_assets>>
                /\ op' = PortfolioCall("update_fill", event_type,
                                       FillCall(price, available_volume,
                                                NotAsked),
                                       NoneStr, FALSE, << >>, << >>,
                                       op.reports)
           ELSE IF check_liquidity(cash, price, available_volume)
           THEN LET trade == make_trade(order, price, available_volume)
                IN  /\ order' = make_trade_order(order, available_volume)
                    /\ cash' = update_from_trade_cash(cash, trade)
                    /\ total_commission' =
                         update_from_trade_commission(total_commission, trade)
                    /\ owned_assets' =
                         update_from_trade_assets(owned_assets, trade)
                    /\ op' = PortfolioCall("update_fill", event_type,
                                           FillCall(price, available_volume,
                                                    "True"),
                                           NoneStr, FALSE, << >>, << >>,
                                           op.reports)
           ELSE /\ UNCHANGED <<order, cash, total_commission, owned_assets>>
                /\ op' = PortfolioCall("update_fill", event_type,
                                       FillCall(price, available_volume,
                                                "False"),
                                       liquidity_failure_raises(
                                           raise_on_warnings),
                                       FALSE, << >>, << >>, op.reports)

NextPortfolio ==
    \/ PortfolioMarket
    \/ PortfolioSignal
    \/ PortfolioFill

SpecPortfolio == InitPortfolio /\ [][NextPortfolio]_vars

----------------------------------------------------------------------------
\* The portfolio under Signal events, with the handlers registered as a
\* list or as an iterator: the setter of signal_handlers stores whatever
\* iterable it is handed.

InitSignals == InitBook({a_list(Handlers), an_iterator(Handlers)})

NextSignals == AnySignal

SpecSignals == InitSignals /\ [][NextSignals]_vars

----------------------------------------------------------------------------
\* The equity curve. The floating point numbers of pandas are modelled as
\* exact fractions in lowest terms, and NaN as a value of its own.

MaxTotal == 4
MaxSnapshots == 3

\* the totals of the example: 100000, 101000, 98980
ExampleTotals == <<100000, 101000, 98980>>

RECURSIVE gcd(_, _)
gcd(a, b) == IF b = 0 THEN a ELSE gcd(b, a % b)

NaN == [nan |-> TRUE, num |-> 0, den |-> 1]

\* the number num / den, den > 0
fraction(num, den) ==
    LET g == gcd(Abs(num), den)
    IN  [nan |-> FALSE, num |-> num \div g, den |-> den \div g]

times(x, y) ==
    IF x.nan \/ y.nan THEN NaN
    ELSE LET g1 == gcd(Abs(x.num), y.den)
             g2 == gcd(Abs(y.num), x.den)
         IN  fraction((x.num \div g1) * (y.num \div g2),
                      (x.den \div g2) * (y.den \div g1))

\* 1.0 + x
one_plus(x) == IF x.nan THEN NaN ELSE fraction(x.num + x.den, x.den)

\* Series.pct_change: the first entry has no predecessor and is NaN
pct_change(column) ==
    [i \in 1..Len(column) |->
        IF i = 1 THEN NaN
        ELSE fraction(column[i] - column[i - 1], column[i - 1])]

\* the product of the entries of column[1..i] that are not NaN
RECURSIVE product_skipna(_, _)
product_skipna(column, i) ==
    IF i = 0 THEN fraction(1, 1)
    ELSE IF column[i].nan THEN product_skipna(column, i - 1)
    ELSE times(product_skipna(column, i - 1), column[i])

\* Series.cumprod (skipna=True): NaN entries are left out of the running
\* product and stay NaN in the result
cumprod(column) ==
    [i \in 1..Len(column) |->
        IF column[i].nan THEN NaN ELSE product_skipna(column, i)]

\* Portfolio.create_equity_curve_df: the columns total, returns and
\* equity_curve of the frame it stores in self.equity_curve
create_equity_curve_df(holdings) ==
    LET total   == [i \in 1..Len(holdings) |-> holdings[i].total]
        returns == pct_change(total)
    IN  [ total        |-> total,
          returns      |-> returns,
          equity_curve |-> cumprod([i \in 1..Len(returns) |-> one_plus(returns[i])]) ]

\* the holdings sequences the curve is made from: the record of the start
\* and one record per bar, with totals that are positive
TotalsSeqs ==
    UNION {[1..n -> 1..MaxTotal] : n \in 1..MaxSnapshots} \cup {ExampleTotals}

holdings_of(totals) ==
    [i \in 1..Len(totals) |->
        IF i = 1 THEN construct_all_holdings(totals[1])[1]
        ELSE holdings_record(<< >>, totals[i], 0, 0)]

CurveCall(curve) == [name |-> "create_equity_curve_df", curve |-> curve]

InitCurve ==
    /\ order = Order__init__(BUY, MARKET, None, None, 1, 0, 0, StartDate, DAY, None)
    /\ args = [order_type |-> MARKET, stop |-> None, qty |-> 1]
    /\ \E totals \in TotalsSeqs :
         /\ all_holdings_mv = holdings_of(totals)
         /\ cash = totals[Len(totals)]
    /\ total_commission = 0
    /\ owned_assets = << >>
    /\ raise_on_warnings = FALSE
    /\ signal_handlers = no_signal_handlers
    /\ positions_df = << >>
    /\ blotter_dt = StartDate
    /\ op = [name |-> "__init__", curve |-> NoneStr]

\* create_equity_curve_df(); the frame kept in self.equity_curve is the
\* curve of the call
CreateEquityCurve ==
    /\ op' = CurveCall(create_equity_curve_df(all_holdings_mv))
    /\ UNCHANGED <<order, args, cash, total_commission, owned_assets,
                   raise_on_warnings, signal_handlers, all_holdings_mv,
                   positions_df, blotter_dt>>

NextCurve == CreateEquityCurve

SpecCurve == InitCurve /\ [][NextCurve]_vars

----------------------------------------------------------------------------
\* Properties

Terminal == {FILLED, CANCELLED, REJECTED}

\* the step is a call of order.check_order_triggers()
IsTick == op'.name = "check_order_triggers"

\* C1: in every reachable state the reported status is FILLED exactly when
\* open_amount is 0, whatever status is stored.
C1_FilledIffNoOpenAmount ==
    (status(order) = FILLED) <=> (open_amount(order) = 0)

\* C1: a cancelled order with nothing left open reports FILLED.
C1_Witness ==
    /\ op.name = "cancel"
    /\ order._status = CANCELLED
    /\ order.qty # 0
    /\ open_amount(order) = 0
    /\ status(order) = FILLED

\* C2: |filled| never exceeds |qty|.
C2_FilledWithinQty == Abs(order.filled) <= Abs(order.qty)

\* C3: once the order reports FILLED, CANCELLED or REJECTED, no call of
\* cancel, reject, hold, check_order_triggers or check_order_expiration
\* makes it report another status.
C3_TerminalIrreversible ==
    [][ ( /\ op'.name \in {"cancel", "reject", "hold", "check_order_triggers",
                           "check_order_expiration"}
          /\ status(order) \in Terminal )
        => status(order') = status(order) ]_vars

\* C4: the stored quantity of a SELL order is never positive.
C4_SellQtyNonPositive == order.action = SELL => order.qty <= 0

\* C4: a SELL order constructed with a positive quantity stores its negation.
C4_Witness ==
    /\ order.action = SELL
    /\ args.qty > 0
    /\ order.qty = 0 - args.qty

\* C5: no step resets stop_reached or limit_reached.
C5_FlagsMonotonic ==
    [][ /\ order.stop_reached => order'.stop_reached
        /\ order.limit_reached => order'.limit_reached ]_vars

\* C5: a stop that fired stays reached through the conversion to LIMIT, a
\* later tick and a later call of another method.
C5_Witness ==
    /\ args.order_type = STOP_LIMIT
    /\ order.order_type = LIMIT
    /\ order.stop_reached
    /\ ~order.limit_reached
    /\ op.name = "hold"

\* C6: triggered holds exactly when (stop unset or stop_reached) and (limit
\* unset or limit_reached).
C6_TriggeredPredicate ==
    triggered(order) <=>
        /\ order.stop = None \/ order.stop_reached
        /\ order.limit = None \/ order.limit_reached

\* C6: a converted STOP_LIMIT order whose limit was reached is triggered.
C6_Witness ==
    /\ args.order_type = STOP_LIMIT
    /\ order.stop = None
    /\ order.limit # None
    /\ order.limit_reached
    /\ triggered(order)

\* C7: check_order_triggers changes nothing of an order that is triggered
\* or is a MARKET order.
C7_NoOpWhenTriggeredOrMarket ==
    [][ (IsTick /\ (order.order_type = MARKET \/ triggered(order)))
        => order' = order ]_vars

\* C7: a tick at a price that meets the stop again left a triggered STOP
\* order as it was.
C7_Witness ==
    /\ op.name = "check_order_triggers"
    /\ ~op.changed
    /\ order.order_type = STOP
    /\ order.action = BUY
    /\ triggered(order)
    /\ op.price >= order.stop
    /\ order.last_updated = 0

\* the flags the rule table sets on a plain STOP or LIMIT order
TableStop(o, p) ==
    /\ o.order_type = STOP
    /\ IF o.action = BUY THEN p >= o.stop ELSE p <= o.stop

TableLimit(o, p) ==
    /\ o.order_type = LIMIT
    /\ IF o.action = BUY THEN p >= o.limit ELSE p <= o.limit

PlainUntriggered(o) == o.order_type \in {STOP, LIMIT} /\ ~triggered(o)

\* C8 as stated: a tick on an untriggered STOP or LIMIT order sets the flag
\* of the rule table and changes nothing else of the order.
C8_OnlyTheFlag ==
    [][ (IsTick /\ PlainUntriggered(order))
        => order' = [order EXCEPT
                        !.stop_reached = @ \/ TableStop(order, op'.price),
                        !.limit_reached = @ \/ TableLimit(order, op'.price)]
      ]_vars

\* C8 amended: a tick on an untriggered STOP or LIMIT order sets the flag of
\* the rule table; when it sets the flag it also refreshes last_updated, and
\* it changes nothing else of the order.
C8_FlagAndLastUpdated ==
    [][ (IsTick /\ PlainUntriggered(order))
        => /\ order' = [order EXCEPT
                          !.stop_reached = @ \/ TableStop(order, op'.price),
                          !.limit_reached = @ \/ TableLimit(order, op'.price),
                          !.last_updated = order'.last_updated]
           /\ order'.last_updated >= order.last_updated
           /\ ( ~TableStop(order, op'.price) /\ ~TableLimit(order, op'.price)
                => order'.last_updated = order.last_updated )
      ]_vars

\* C8: a tick at or below the stop set stop_reached of a STOP / SELL order
\* and refreshed last_updated.
C8_Witness ==
    /\ op.name = "check_order_triggers"
    /\ op.changed
    /\ order.order_type = STOP
    /\ order.action = SELL
    /\ order.stop_reached
    /\ op.price <= order.stop
    /\ order.last_updated > order.created

\* the order was constructed as a STOP_LIMIT order with this action
CreatedStopLimit(action) ==
    args.order_type = STOP_LIMIT /\ order.action = action

\* C9, the example: stop 50, limit 55, BUY, ticks at 48, 51 and 56.
C9_Example ==
    LET o0 == Order__init__(BUY, STOP_LIMIT, 50, 55, 1, 0, 0, 0, DAY, None)
        o1 == check_order_triggers(o0, 48, 1)
        o2 == check_order_triggers(o1, 51, 2)
        o3 == check_order_triggers(o2, 56, 3)
    IN  /\ ~triggered(o1)
        /\ o2.stop_reached /\ o2.order_type = LIMIT /\ o2.stop = None
        /\ ~triggered(o2)
        /\ o3.limit_reached /\ triggered(o3)

\* C9, one tick at price p on an order constructed STOP_LIMIT / BUY
C9_Tick(p) ==
    /\ order'.limit_reached => order'.stop_reached
    /\ ~order.stop_reached =>
         IF p >= order.stop
         THEN /\ order'.stop_reached
              /\ order'.order_type = LIMIT
              /\ order'.stop = None
              /\ order'.limit_reached <=> p >= order.limit
              /\ triggered(order') <=> p >= order.limit
         ELSE order' = order /\ ~triggered(order')
    /\ (order.stop_reached /\ ~order.limit_reached) =>
         /\ order'.limit_reached <=> p >= order.limit
         /\ triggered(order') <=> p >= order.limit

\* C9: for a STOP_LIMIT / BUY order limit_reached is never set while
\* stop_reached is false; the first tick at or above the stop sets
\* stop_reached, makes the order a LIMIT order and clears stop; the order is
\* triggered by the first tick, that one or a later one, at or above the
\* limit; and the example of the claim runs as stated.
C9_StopLimitBuy ==
    [][ /\ C9_Example
        /\ CreatedStopLimit(BUY) => (order.limit_reached => order.stop_reached)
        /\ (IsTick /\ CreatedStopLimit(BUY)) => C9_Tick(op'.price) ]_vars

\* C9: a tick at or above the limit triggered an order constructed
\* STOP_LIMIT / BUY with its stop below its limit.
C9_Witness ==
    /\ CreatedStopLimit(BUY)
    /\ args.stop < order.limit
    /\ op.name = "check_order_triggers"
    /\ op.changed
    /\ op.price >= order.limit
    /\ order.stop = None
    /\ order.order_type = LIMIT
    /\ order.limit_reached
    /\ triggered(order)
    /\ order.last_updated > order.created

\* C10 as stated, one tick at price p on an order constructed STOP_LIMIT /
\* SELL: the limit is reached on price >= limit, on the tick the stop fires
\* and on every later tick.
C10_TickAsStated(p) ==
    /\ order'.limit_reached => order'.stop_reached
    /\ ~order.stop_reached =>
         /\ order'.stop_reached <=> p <= order.stop
         /\ order'.limit_reached <=> (p <= order.stop /\ p >= order.limit)
    /\ (order.stop_reached /\ ~order.limit_reached) =>
         (order'.limit_reached <=> p >= order.limit)

C10_LimitAtOrAboveOnEveryTick ==
    [][ (IsTick /\ CreatedStopLimit(SELL)) => C10_TickAsStated(op'.price) ]_vars

\* C10 amended, one tick at price p on an order constructed STOP_LIMIT /
\* SELL: price >= limit is the condition on the tick the stop fires only; on
\* a later tick the order is a LIMIT / SELL order and the limit is reached
\* on price <= limit.
C10_TickAmended(p) ==
    /\ order'.limit_reached => order'.stop_reached
    /\ ~order.stop_reached =>
         /\ order'.stop_reached <=> p <= order.stop
         /\ order'.limit_reached <=> (p <= order.stop /\ p >= order.limit)
    /\ (order.stop_reached /\ ~order.limit_reached) =>
         /\ order.order_type = LIMIT
         /\ order'.limit_reached <=> p <= order.limit

C10_StopLimitSell ==
    [][ (IsTick /\ CreatedStopLimit(SELL)) => C10_TickAmended(op'.price) ]_vars

\* C10: a STOP_LIMIT / SELL order whose stop had fired below the limit had
\* its limit reached by a later tick, above the stop and below the limit.
C10_Witness ==
    /\ CreatedStopLimit(SELL)
    /\ op.name = "check_order_triggers"
    /\ op.changed
    /\ op.price > args.stop
    /\ op.price < order.limit
    /\ order.stop_reached
    /\ order.limit_reached

\* the step changes the order type
TypeChanges == order'.order_type # order.order_type

\* the step is the first to set stop_reached
StopFires == ~order.stop_reached /\ order'.stop_reached

\* C11: the order type changes in one kind of step only, the
\* check_order_triggers call that first sets stop_reached of an order
\* constructed STOP_LIMIT, and in that step the type goes from STOP_LIMIT to
\* LIMIT and stop is cleared; until then the type is STOP_LIMIT, and from
\* then on it is LIMIT; the type of an order constructed otherwise never
\* changes.
C11_ConversionExactlyOnce ==
    [][ /\ TypeChanges =>
             /\ IsTick
             /\ args.order_type = STOP_LIMIT
             /\ StopFires
             /\ order.order_type = STOP_LIMIT
             /\ order.stop # None
             /\ order'.order_type = LIMIT
             /\ order'.stop = None
        /\ (args.order_type = STOP_LIMIT /\ StopFires) => (IsTick /\ TypeChanges)
        /\ (args.order_type = STOP_LIMIT /\ ~order.stop_reached) =>
             order.order_type = STOP_LIMIT /\ order.stop = args.stop
        /\ (args.order_type = STOP_LIMIT /\ order.stop_reached) =>
             /\ order.order_type = LIMIT /\ order.stop = None
             /\ order'.order_type = LIMIT /\ order'.stop = None
        /\ args.order_type # STOP_LIMIT => order'.order_type = args.order_type
      ]_vars

\* C11: the tick on which the stop of a STOP_LIMIT order fired, without
\* reaching the limit, left a LIMIT order with no stop.
C11_Witness ==
    /\ args.order_type = STOP_LIMIT
    /\ op.name = "check_order_triggers"
    /\ op.changed
    /\ order.stop_reached
    /\ ~order.limit_reached
    /\ order.order_type = LIMIT
    /\ order.stop = None

\* C12: a check_order_triggers call that repeats, at the same price, a call
\* that changed nothing (no trigger condition was met, or none was left to
\* meet) changes no field of the order.
C12_SecondCallChangesNothing ==
    [][ (IsTick /\ op'.again) => order' = order ]_vars

\* C12: a second tick below the stop of an untriggered STOP / BUY order, on
\* a later day than the order was created, left the order as it was.
C12_Witness ==
    /\ op.name = "check_order_triggers"
    /\ op.again
    /\ ~op.changed
    /\ order.order_type = STOP
    /\ order.action = BUY
    /\ ~order.stop_reached
    /\ op.price < order.stop
    /\ order.last_updated = order.created

\* the step is a call of order.check_order_expiration()
IsExpire == op'.name = "check_order_expiration"

\* C13: check_order_expiration on a DAY order that does not report FILLED,
\* with the calendar answering that the market is closed, leaves the order
\* reporting CANCELLED with the reason that the market closed without
\* executing it.
C13_DayOrderCancelsAtClose ==
    [][ ( /\ IsExpire
          /\ ~op'.market_open
          /\ order.order_subtype = DAY
          /\ status(order) # FILLED )
        => /\ status(order') = CANCELLED
           /\ order'.reason = "Market closed without executing order." ]_vars

\* C13: an open DAY order checked with the market closed was cancelled.
C13_Witness ==
    /\ op.name = "check_order_expiration"
    /\ ~op.market_open
    /\ op.changed
    /\ order.order_subtype = DAY
    /\ open_amount(order) # 0
    /\ status(order) = CANCELLED
    /\ order.reason = "Market closed without executing order."

\* the day a GOOD_TIL_CANCELED order expires: created + DateOffset(days =
\* max_days_open)
expr_date(o) == o.created + o.max_days_open

\* C14: check_order_expiration on an open GOOD_TIL_CANCELED order, on the
\* day max_days_open days after its creation and with the calendar answering
\* that the market is closed, leaves the order reporting CANCELLED with the
\* reason that max_days_open had passed.
C14_GtcCancelsOnExpiryDay ==
    [][ ( /\ IsExpire
          /\ ~op'.market_open
          /\ order.order_subtype = GOOD_TIL_CANCELED
          /\ op'.now = expr_date(order)
          /\ open(order) )
        => /\ status(order') = CANCELLED
           /\ order'.reason =
                "Max days had passed without the underlying order executing."
      ]_vars

\* C15: check_order_expiration with the calendar answering that the market
\* is open changes neither the status nor the reason of the order, whatever
\* its subtype, the day it was created and the day of the check.
C15_NoCancelWhileMarketOpen ==
    [][ (IsExpire /\ op'.market_open)
        => /\ status(order') = status(order)
           /\ order'._status = order._status
           /\ order'.reason = order.reason ]_vars

\* C15: an open GOOD_TIL_CANCELED order checked after its expiry day with
\* the market open stayed open.
C15_Witness ==
    /\ op.name = "check_order_expiration"
    /\ op.market_open
    /\ ~op.changed
    /\ order.order_subtype = GOOD_TIL_CANCELED
    /\ op.now > expr_date(order)
    /\ status(order) = OPEN

\* C16: a call of the Order Book's check_order_triggers, made for a Market
\* or a Signal event, returns the order exactly when the order was open and
\* untriggered before the call and is triggered after it; and the order is
\* in at most one of all the lists returned.
C16_ReportedAtMostOnce ==
    [][ op'.checked =>
          /\ op'.name \in {"update_timeindex", "update_signal"}
          /\ op'.returned # << >> <=>
                (open(order) /\ ~triggered(order) /\ triggered(order'))
          /\ op'.returned # << >> => op.reports = 0
          /\ op'.reports <= 1 ]_vars

\* C16: a Signal event after the order had been reported found it still
\* open and triggered, and the Order Book returned no order.
C16_Witness ==
    /\ op.name = "update_signal"
    /\ op.checked
    /\ op.returned = << >>
    /\ op.reports = 1
    /\ open(order)
    /\ order.order_type # MARKET
    /\ triggered(order)

\* the step is update_timeindex called with an event that is not a Market
\* event, or update_signal called with an event that is not a Signal event
WrongEvent ==
    \/ op'.name = "update_timeindex" /\ op'.event_type # "MARKET_EVENT"
    \/ op'.name = "update_signal" /\ op'.event_type # "SIGNAL"

\* C17: update_timeindex with an event that is not a Market event, and
\* update_signal with an event that is not a Signal event, raise
\* InvalidEventTypeError and nothing else happens: the Order Book's clock
\* stays, no trigger is evaluated, no handler is called, and the order, cash,
\* the commission, the positions and the snapshots are as before.
C17_WrongEventRaisesBeforeAnyEffect ==
    [][ WrongEvent =>
          /\ op'.raised = "InvalidEventTypeError"
          /\ ~op'.checked
          /\ op'.returned = << >>
          /\ op'.handled = << >>
          /\ UNCHANGED <<order, cash, total_commission, owned_assets,
                         all_holdings_mv, positions_df, blotter_dt,
                         signal_handlers>> ]_vars

\* C17: update_signal called with a Fill event, after a bar was recorded and
\* while the order is open and untriggered, raised.
C17_Witness ==
    /\ op.name = "update_signal"
    /\ op.event_type = "FILL"
    /\ op.raised = "InvalidEventTypeError"
    /\ Len(all_holdings_mv) = 2
    /\ blotter_dt = StartDate + 1
    /\ open(order)
    /\ ~triggered(order)

\* the step is update_fill called with a Fill event
IsFill == op'.name = "update_fill" /\ op'.event_type = "FILL"

\* C18: update_fill called with an event that is not a Fill event raises
\* InvalidEventTypeError and leaves the order, cash, the commission and the
\* positions as they were.
C18_WrongFillEventRaises ==
    [][ (op'.name = "update_fill" /\ op'.event_type # "FILL")
        => /\ op'.raised = "InvalidEventTypeError"
           /\ UNCHANGED <<order, cash, total_commission, owned_assets>>
      ]_vars

\* C19: the check_liquidity call of update_fill answers True for every
\* negative quantity, and for a quantity >= 0 answers True exactly when
\* cash - price * qty > 0.
C19_LiquidityStrict ==
    [][ IsFill =>
          /\ op'.liquid \in {"True", "False"}
          /\ op'.qty < 0 => op'.liquid = "True"
          /\ op'.qty >= 0 =>
               (op'.liquid = "True" <=> cash - op'.price * op'.qty > 0)
      ]_vars

\* C19: a buy that would have left cash at exactly 0 was refused.
C19_Witness ==
    /\ op.name = "update_fill"
    /\ op.event_type = "FILL"
    /\ op.liquid = "False"
    /\ op.qty > 0
    /\ cash > 0
    /\ cash - op.price * op.qty = 0

\* C20: a Fill event with a quantity >= 0, processed while cash is not
\* negative, leaves cash not negative.
C20_BuyKeepsCashNonNegative ==
    [][ (IsFill /\ op'.qty >= 0 /\ cash >= 0) => cash' >= 0 ]_vars

\* C21: a Fill event whose liquidity check fails changes nothing: the order
\* (its filled amount, its status), cash, the commission and the positions
\* are as before; InsufficientFundsError is raised exactly when the
\* portfolio has raise_on_warnings, and otherwise nothing is raised.
C21_LiquidityFailureChangesNothing ==
    [][ (IsFill /\ op'.liquid = "False") =>
          /\ UNCHANGED <<order, cash, total_commission, owned_assets,
                         all_holdings_mv, positions_df>>
          /\ op'.raised = "InsufficientFundsError" <=> raise_on_warnings
          /\ ~raise_on_warnings => op'.raised = NoneStr ]_vars

\* C21: a buy refused for lack of cash by a portfolio without
\* raise_on_warnings returned normally and left the order open.
C21_Witness ==
    /\ op.name = "update_fill"
    /\ op.event_type = "FILL"
    /\ op.liquid = "False"
    /\ ~raise_on_warnings
    /\ op.raised = NoneStr
    /\ open(order)

\* the step is a Fill event that passed the liquidity check
IsTrade == IsFill /\ op'.liquid = "True"

\* C22, the example: cash 100000, BUY 100 shares at 10 with commission 1.
C22_Example ==
    LET o == Order__init__(BUY, MARKET, None, None, 100, 0, 1, StartDate,
                           DAY, None)
        trade == make_trade(o, 10, 100)
    IN  /\ check_liquidity(100000, 10, 100)
        /\ update_from_trade_cash(100000, trade) = 98999
        /\ update_from_trade_commission(0, trade) = 1
        /\ update_from_trade_assets(<< >>, trade)[Ticker].shares_owned = 100

C23_NoZeroSharePosition ==
    \A t \in DOMAIN owned_assets : owned_assets[t].shares_owned # 0

\* the step is update_timeindex processing a Market event
IsBar == op'.name = "update_timeindex" /\ op'.raised = NoneStr

\* total = cash + the mark value of the one tracked instrument
TotalAddsUp(record) == record["total"] = record["cash"] + record[Ticker]

\* shares owned of the tracked instrument, 0 when it is not owned
SharesOwned(oa) == IF Ticker \in DOMAIN oa THEN oa[Ticker].shares_owned ELSE 0

\* C24: in every holdings snapshot, the first one included, total = cash +
\* the mark value of the tracked instrument; and the record a Market event
\* appends carries the cash and the commission of the portfolio at that
\* event and, as mark value, the shares owned times the adjusted close (0
\* when the instrument is not owned).
C24_SnapshotTotal ==
    [][ /\ \A i \in 1..Len(all_holdings_mv) : TotalAddsUp(all_holdings_mv[i])
        /\ \A i \in 1..Len(all_holdings_mv') : TotalAddsUp(all_holdings_mv'[i])
        /\ IsBar =>
             LET record == all_holdings_mv'[Len(all_holdings_mv')]
             IN  /\ record["cash"] = cash
                 /\ record["commission"] = total_commission
                 /\ \E adj_close \in AdjCloses :
                       record[Ticker] = SharesOwned(owned_assets) * adj_close
      ]_vars

\* C24: a Market event after a buy of one share with commission 2 recorded
\* cash -1, commission 2, mark value 2 and total 1.
C24_Witness ==
    /\ op.name = "update_timeindex"
    /\ op.raised = NoneStr
    /\ Len(all_holdings_mv) = 2
    /\ all_holdings_mv[2]["cash"] = 0 - 1
    /\ all_holdings_mv[2]["commission"] = 2
    /\ all_holdings_mv[2][Ticker] = 2
    /\ all_holdings_mv[2]["total"] = 1

\* seq is longer by one element and starts with all of before
GrownByOne(before, seq) ==
    /\ Len(seq) = Len(before) + 1
    /\ SubSeq(seq, 1, Len(before)) = before

\* C25: a processed Market event appends one record to the holdings
\* snapshots and one row to the positions table and leaves the records and
\* rows already there as they were; no other call touches either; so the
\* snapshots hold the first record and one record for each Market event
\* processed (each advanced the Order Book's clock by one bar).
C25_SnapshotsAppendOnly ==
    [][ /\ IsBar => /\ GrownByOne(all_holdings_mv, all_holdings_mv')
                    /\ GrownByOne(positions_df, positions_df')
        /\ ~IsBar => UNCHANGED <<all_holdings_mv, positions_df>>
        /\ Len(all_holdings_mv) = 1 + (blotter_dt - StartDate)
        /\ Len(positions_df) = blotter_dt - StartDate
        /\ \E initial_capital \in BookCapitals :
             all_holdings_mv[1] = construct_all_holdings(initial_capital)[1]
      ]_vars

\* C25: a second Market event, processed after a trade that followed the
\* first one, left two appended records that differ, in the order they were
\* appended.
C25_Witness ==
    /\ op.name = "update_timeindex"
    /\ op.raised = NoneStr
    /\ Len(all_holdings_mv) = 3
    /\ Len(positions_df) = 2
    /\ all_holdings_mv[2]["cash"] = 2
    /\ all_holdings_mv[3]["cash"] = 1
    /\ positions_df[1].index = <<StartDate + 1, Ticker>>
    /\ positions_df[2].index = <<StartDate + 2, Ticker>>

\* the step is update_signal called with a Signal event
IsSignal == op'.name = "update_signal" /\ op'.event_type = "SIGNAL"

\* C26: every update_signal call with a Signal event asks the Order Book
\* to check the triggers and then calls every registered handler once, in
\* the order of registration, each with the one signal and with the list
\* the Order Book returned in this call.
C26_EveryHandlerOnEverySignal ==
    [][ IsSignal =>
          /\ op'.checked
          /\ Len(op'.handled) = Len(Handlers)
          /\ \A i \in 1..Len(op'.handled) :
                /\ op'.handled[i].handler = Handlers[i]
                /\ op'.handled[i].signal = op'.handled[1].signal
                /\ op'.handled[i].triggered_orders = op'.returned ]_vars

\* A ticker the portfolio never trades, for the queries about tickers that
\* are not owned
OtherTicker == "BBB"

QueriedTickers == {Ticker, OtherTicker}

\* Portfolio.total_asset_mv: the sum of the mark values of the positions
RECURSIVE sum_position_values(_, _)
sum_position_values(oa, tickers) ==
    IF tickers = {}
    THEN 0
    ELSE LET t == CHOOSE x \in tickers : TRUE
         IN  oa[t].total_position_value + sum_position_values(oa, tickers \ {t})

total_asset_mv(oa) == sum_position_values(oa, DOMAIN oa)

\* Portfolio.total_value: the mark values and the cash
total_value(oa, c) == total_asset_mv(oa) + c

\* A quotient of two Python numbers: the pair of dividend and divisor
quotient(a, b) == [num |-> a, den |-> b]

\* Portfolio.current_weights: the quotients it computes, in the order of the
\* code; a divisor of zero raises ZeroDivisionError out of the method
current_weights(oa, c, include_cash) ==
    LET total_mv == IF include_cash THEN total_value(oa, c) ELSE total_asset_mv(oa)
        divides  == (IF include_cash THEN 1 ELSE 0) + Cardinality(DOMAIN oa)
    IN  IF divides > 0 /\ total_mv = 0
        THEN [ raised |-> "ZeroDivisionError", weights |-> << >> ]
        ELSE [ raised  |-> NoneStr,
               weights |->
                   [k \in (IF include_cash THEN {"cash"} ELSE {}) \cup DOMAIN oa |->
                       IF k \in DOMAIN oa
                       THEN quotient(oa[k].total_position_value, total_mv)
                       ELSE quotient(c, total_mv)] ]

\* Portfolio.get_asset_weight: only the KeyError of the lookup is caught
get_asset_weight(oa, c, ticker, include_cash) ==
    LET current == current_weights(oa, c, include_cash)
    IN  IF current.raised # NoneStr
        THEN [ raised |-> current.raised, returned |-> quotient(0, 1) ]
        ELSE IF ticker \in DOMAIN current.weights
             THEN [ raised |-> NoneStr, returned |-> current.weights[ticker] ]
             ELSE [ raised |-> NoneStr, returned |-> quotient(0, 1) ]

\* C27: in every state of the portfolio, asking for the weight of a ticker
\* that is not owned answers 0 and raises nothing, with the cash included
\* and without it.
C27_UnownedTickerWeighsZero ==
    \A ticker \in QueriedTickers \ DOMAIN owned_assets :
        \A include_cash \in BOOLEAN :
            get_asset_weight(owned_assets, cash, ticker, include_cash)
                = [ raised |-> NoneStr, returned |-> quotient(0, 1) ]

\* The part of C27 that the code does keep: with no position at all and
\* the cash left out, the answer is 0
C27_NoPositionsNoCash ==
    owned_assets = << >> =>
        \A ticker \in QueriedTickers :
            get_asset_weight(owned_assets, cash, ticker, FALSE)
                = [ raised |-> NoneStr, returned |-> quotient(0, 1) ]

\* the totals of the holdings the curve was made from
Totals == [i \in 1..Len(all_holdings_mv) |-> all_holdings_mv[i].total]

IsCurve == op.name = "create_equity_curve_df"

\* C28: the returns start with NaN and go on with t_i / t_(i-1) - 1; the
\* equity curve starts with 1.0 and goes on with t_i / t_0.
C28_ReturnsAndEquityCurve ==
    IsCurve =>
        /\ op.curve.returns[1] = NaN
        /\ \A i \in 2..Len(Totals) :
              op.curve.returns[i] = fraction(Totals[i] - Totals[i - 1], Totals[i - 1])
        /\ op.curve.equity_curve[1] = fraction(1, 1)
        /\ \A i \in 2..Len(Totals) :
              op.curve.equity_curve[i] = fraction(Totals[i], Totals[1])

\* The part of C28 that the code keeps: the returns, and the equity curve
\* from its second entry on; for the example the returns NaN, 0.01, -0.02
\* and the curve entries 1.01 and 0.9898
C28_AllButTheFirstCurveEntry ==
    IsCurve =>
        /\ op.curve.returns[1] = NaN
        /\ op.curve.equity_curve[1] = NaN
        /\ \A i \in 2..Len(Totals) :
              /\ op.curve.returns[i] = fraction(Totals[i] - Totals[i - 1], Totals[i - 1])
              /\ op.curve.equity_curve[i] = fraction(Totals[i], Totals[1])
        /\ Totals = ExampleTotals =>
              /\ op.curve.returns = <<NaN, fraction(1, 100), fraction(0 - 2, 100)>>
              /\ op.curve.equity_curve[2] = fraction(101, 100)
              /\ op.curve.equity_curve[3] = fraction(9898, 10000)

\* C29: in every update_timeindex call that handles a Market event, the
\* triggers are evaluated at the time of the latest bar, which the Order
\* Book was given before; the record is built after that evaluation;
\* persistence is handed the record while the holdings in memory do not
\* hold it yet; the call ends with the record appended.
C29_StepsInOrder ==
    [][ IsBar =>
          LET done == op'.steps[Len(op'.steps)]
          IN  /\ blotter_dt' = blotter_dt + 1
              /\ done.current_dt = blotter_dt'
              /\ done.checked_at = blotter_dt'
              /\ done.built_after_check
              /\ done.written_built
              /\ done.written = Len(all_holdings_mv)
              /\ done.holdings = Len(all_holdings_mv')
              /\ op'.checked ]_vars

\* a bar in which a held position is marked and the order triggers
C29_Witness ==
    /\ op.name = "update_timeindex"
    /\ op.raised = NoneStr
    /\ Len(op.steps) = 5
    /\ Len(op.returned) = 1
    /\ owned_assets # << >>
    /\ Len(all_holdings_mv) = 3

IsNew == op.name = "__init__"

\* C30 as stated: every order reports OPEN right after its construction,
\* whatever the arguments of the constructor.
C30_NewOrderReportsOpen == IsNew => status(order) = OPEN

\* C30: right after its construction an order reports OPEN when some
\* quantity is left to fill, and FILLED when none is (quantity 0, or a
\* filled amount equal to the quantity); OPEN is what is stored.
C30_NewOrderReportsOpenUnlessNothingOpen ==
    IsNew =>
        /\ order._status = OPEN
        /\ status(order) = IF open_amount(order) = 0 THEN FILLED ELSE OPEN

\* a new order filled to its quantity at construction
C30_Witness ==
    /\ IsNew
    /\ order.qty # 0
    /\ order.filled = order.qty
    /\ status(order) = FILLED

\* the step is an update_fill call
IsUpdateFill == op'.name = "update_fill"

\* the update_fill call made a trade: cash, commission, the filled amount or
\* the positions are not what they were
TradeMade == <<order, cash, total_commission, owned_assets>>' # <<order, cash, total_commission, owned_assets>>

\* C31: every update_fill call that makes a trade is for an order that is a
\* MARKET order or is triggered when the call is made; a Fill event for a
\* STOP, LIMIT or STOP_LIMIT order that is not triggered makes no trade.
C31_TradeOnlyWhenEligible ==
    [][ (IsUpdateFill /\ TradeMade) =>
           (order.order_type = MARKET \/ triggered(order)) ]_vars

\* C32: an update_fill call for an order that reports FILLED, CANCELLED or
\* REJECTED makes no trade: order.filled, the cash, the total commission and
\* the positions stay as they are.
C32_NoFillOnTerminalOrder ==
    [][ (IsUpdateFill /\ status(order) \in Terminal) =>
           /\ order'.filled = order.filled
           /\ UNCHANGED <<cash, total_commission, owned_assets>> ]_vars

\* the fields of an order that the trigger evaluation is about
TriggerView(o) ==
    [ stop |-> o.stop, limit |-> o.limit, stop_reached |-> o.stop_reached,
      limit_reached |-> o.limit_reached, order_type |-> o.order_type,
      triggered |-> triggered(o) ]

\* the order after one more check_order_triggers call at the price of the
\* last one
CheckedAgain(o, current_price) == check_order_triggers(o, current_price, o.last_updated)

\* the call at current_price fires the stop of a STOP_LIMIT / SELL order
\* below its limit
StopFiresBelowLimit(o, current_price) ==
    /\ o.order_type = STOP_LIMIT
    /\ o.action = SELL
    /\ ~o.stop_reached
    /\ current_price <= o.stop
    /\ current_price < o.limit

\* C33 as stated: after every check_order_triggers call, one more call at
\* the same price leaves stop, limit, the two flags, the type and triggered
\* as the first call left them.
C33_TwiceIsOnce ==
    [][ IsTick =>
          TriggerView(CheckedAgain(order', op'.price)) = TriggerView(order') ]_vars

\* C33: a second check_order_triggers call at the same price leaves stop,
\* limit, the two flags, the type and triggered as the first call left them,
\* except when the first call fired the stop of a STOP_LIMIT / SELL order at
\* a price below its limit: the order is a LIMIT / SELL order then, and the
\* second call sets limit_reached.
C33_TwiceIsOnceButStopLimitSell ==
    [][ IsTick =>
          LET once  == order'
              twice == CheckedAgain(order', op'.price)
          IN  IF StopFiresBelowLimit(order, op'.price)
              THEN /\ ~once.limit_reached
                   /\ TriggerView(twice) = [TriggerView(once) EXCEPT !.limit_reached = TRUE, !.triggered = TRUE]
              ELSE TriggerView(twice) = TriggerView(once) ]_vars

\* a tick that fired the stop of a STOP_LIMIT / SELL order below its limit:
\* one more call at that price would reach the limit
C33_Witness ==
    /\ op.name = "check_order_triggers"
    /\ op.changed
    /\ args.order_type = STOP_LIMIT
    /\ order.action = SELL
    /\ order.order_type = LIMIT
    /\ order.stop_reached
    /\ ~order.limit_reached
    /\ op.price < order.limit
    /\ CheckedAgain(order, op.price).limit_reached

\* the fields of a holdings record of fixed shape: the timestamp, one field
\* per tracked instrument, cash, commission and total
HoldingsFields == {"datetime", Ticker, "cash", "commission", "total"}

\* C34: every record of all_holdings_mv, the record of the start and every
\* record appended by a Market event, has the fields datetime, one per
\* instrument, cash, commission and total; the datetime of the record
\* appended by the i-th bar is the timestamp of that bar.
C34_FixedShape ==
    \A i \in 1..Len(all_holdings_mv) :
        /\ DOMAIN all_holdings_mv[i] = HoldingsFields
        /\ i > 1 => all_holdings_mv[i].datetime = StartDate + (i - 1)

\* The part of C34 that the code keeps: the record of the start has all the
\* fields, and every appended record has them all but the timestamp
C34_ShapeButTheTimestamp ==
    \A i \in 1..Len(all_holdings_mv) :
        DOMAIN all_holdings_mv[i] =
            IF i = 1 THEN HoldingsFields ELSE HoldingsFields \ {"datetime"}
====
